---- MODULE Spec2Model ----
(***************************************************************************)
(* The plugin installation pipeline of GitSpace (src/plugins.go):          *)
(* installPlugin, installFromGitspaceCatalog, loadPluginManifest,          *)
(* copyFile, downloadFile, uninstallPlugin and listInstalledPlugins, over  *)
(* a file system of files and directories addressed by paths.              *)
(*                                                                         *)
(* A path is a sequence of path elements.  A file holds a record: a        *)
(* manifest document, a plugin source file, a go.mod / go.sum, or a file   *)
(* that belongs to nobody's plugin.                                        *)
(*                                                                         *)
(* The plugin menu (HandleInstallPlugin, HandleUninstallPlugin) calls the  *)
(* installer and the Manager; the Manager's side is kept in host.          *)
(***************************************************************************)
EXTENDS Naturals, Sequences, FiniteSets, TLC

VARIABLES fs, st, prev, obs, host

vars == <<fs, st, prev, obs, host>>

\* ------------------------------------------------------------------------
\* Paths (path/filepath)
\* ------------------------------------------------------------------------

\* filepath.Clean on an absolute path: "." and "" elements vanish, ".."
\* removes the element before it and is dropped at the root.
RECURSIVE CleanFrom(_, _)
CleanFrom(done, rest) ==
  IF rest = <<>> THEN done
  ELSE IF Head(rest) = ".."
       THEN CleanFrom(IF done = <<>> THEN <<>> ELSE SubSeq(done, 1, Len(done) - 1),
                      Tail(rest))
       ELSE IF Head(rest) \in {"", "."}
            THEN CleanFrom(done, Tail(rest))
            ELSE CleanFrom(Append(done, Head(rest)), Tail(rest))

Clean(path) == CleanFrom(<<>>, path)

\* filepath.Join(base, rel): concatenate, then Clean.
Join(base, rel) == Clean(base \o rel)

\* filepath.Dir
Dir(path) == IF path = <<>> THEN <<>> ELSE SubSeq(path, 1, Len(path) - 1)

\* path lies at or below dir
Under(path, dir) ==
  /\ Len(dir) <= Len(path)
  /\ SubSeq(path, 1, Len(dir)) = dir

\* path lies strictly below dir
Inside(path, dir) == Under(path, dir) /\ path # dir

\* every directory on the way to path, path included
Ancestors(path) == { SubSeq(path, 1, i) : i \in 0..Len(path) }

\* ------------------------------------------------------------------------
\* File system operations (package os)
\* ------------------------------------------------------------------------

IsFile(f, path) == path \in DOMAIN f.files
IsDir(f, path) == path \in f.dirs
Exists(f, path) == IsFile(f, path) \/ IsDir(f, path)

\* os.MkdirAll succeeds unless an element of the path is a regular file.
MkdirAllOk(f, path) == \A a \in Ancestors(path) : ~IsFile(f, a)

MkdirAll(f, path) == [f EXCEPT !.dirs = @ \cup Ancestors(path)]

RemoveNothing(f, path) == f

\* a removal that stops at the first level: the files directly in path go,
\* its subdirectories and what they hold stay
RemoveTopFiles(f, path) ==
  [files |-> [x \in { y \in DOMAIN f.files : ~(Inside(y, path) /\ Len(y) = Len(path) + 1) }
                |-> f.files[x]],
   dirs  |-> f.dirs]

\* os.RemoveAll removes path and everything below it; a missing path is
\* no error.
RemoveAll(f, path) ==
  [files |-> [x \in { y \in DOMAIN f.files : ~Under(y, path) } |-> f.files[x]],
   dirs  |-> { d \in f.dirs : ~Under(d, path) }]

\* os.WriteFile / os.Create+io.Copy need the parent directory and refuse
\* to write over a directory.
WriteOk(f, path) == IsDir(f, Dir(path)) /\ ~IsDir(f, path)

WriteFile(f, path, data) ==
  [f EXCEPT !.files = [x \in (DOMAIN f.files) \cup {path} |->
                         IF x = path THEN data ELSE f.files[x]]]

\* what a directory holds: every file and directory strictly below it,
\* by path relative to the directory
RelTo(path, dir) == SubSeq(path, Len(dir) + 1, Len(path))

DirView(f, dir) ==
  [files |-> { <<RelTo(x, dir), f.files[x]>> :
                 x \in { y \in DOMAIN f.files : Inside(y, dir) } },
   dirs  |-> { RelTo(d, dir) : d \in { e \in f.dirs : Inside(e, dir) } }]

\* ------------------------------------------------------------------------
\* The world the installer runs in
\* ------------------------------------------------------------------------

\* number of top-level installPlugin calls one run of the host makes
MaxCalls == 2

ManifestName == "gitspace-plugin.toml"

\* getPluginsDir: <home>/.ssot/gitspace/plugins
PluginsDir == <<"home", ".ssot", "gitspace", "plugins">>

Src(path, entry) == [path |-> path, entry_point |-> entry]

\* The plugin sources an operator can point the installer at.  name is
\* manifest.Plugin.Name split into path elements (<<>> is the empty
\* string); present is the set of declared files that really are in the
\* source tree; deps says whether its Go files import other modules.
PkgIds == {"A", "B", "C", "E", "F", "G", "H", "I"}

Packages ==
  [id \in PkgIds |->
     CASE id = "A" -> [wellFormed |-> TRUE, name |-> <<"p">>, deps |-> FALSE,
                       sources |-> << Src(<<"main.go">>, "main") >>,
                       present |-> { <<"main.go">> }]
       [] id = "B" -> [wellFormed |-> TRUE, name |-> <<"p">>, deps |-> TRUE,
                       sources |-> << Src(<<"main.go">>, "main"),
                                      Src(<<"lib", "util.go">>, "util") >>,
                       present |-> { <<"main.go">>, <<"lib", "util.go">> }]
       [] id = "C" -> [wellFormed |-> TRUE, name |-> <<"p">>, deps |-> FALSE,
                       sources |-> << Src(<<"main.go">>, "main"),
                                      Src(<<"lib", "util.go">>, "util"),
                                      Src(<<"extra.go">>, "extra") >>,
                       present |-> { <<"main.go">>, <<"extra.go">> }]
       [] id = "E" -> [wellFormed |-> TRUE, name |-> <<"p">>, deps |-> FALSE,
                       sources |-> << Src(<<"..", "..", "etc", "passwd">>, "main") >>,
                       present |-> {}]
       [] id = "F" -> [wellFormed |-> TRUE, name |-> <<>>, deps |-> FALSE,
                       sources |-> << Src(<<"main.go">>, "main") >>,
                       present |-> { <<"main.go">> }]
       [] id = "G" -> [wellFormed |-> TRUE, name |-> <<"p">>, deps |-> FALSE,
                       sources |-> << >>,
                       present |-> {}]
       [] id = "H" -> [wellFormed |-> TRUE, name |-> <<"q">>, deps |-> FALSE,
                       sources |-> << Src(<<"main.go">>, ""),
                                      Src(<<"go.mod">>, "mod") >>,
                       present |-> { <<"main.go">>, <<"go.mod">> }]
       [] OTHER    -> [wellFormed |-> FALSE, name |-> <<>>, deps |-> FALSE,
                       sources |-> << >>,
                       present |-> {}]]

\* the manifest document of a source tree, as the bytes of its
\* gitspace-plugin.toml
ManifestDoc(id) ==
  [type |-> "toml", wellFormed |-> Packages[id].wellFormed,
   name |-> Packages[id].name, sources |-> Packages[id].sources]

SourceFile(id, path) == [type |-> "src", pkg |-> id, path |-> path]

\* a file that is nobody's plugin
Foreign == [type |-> "foreign"]

\* the files of a source tree, by path relative to its root
TreeFiles(id) ==
  [x \in {<<ManifestName>>} \cup Packages[id].present |->
     IF x = <<ManifestName>> THEN ManifestDoc(id) ELSE SourceFile(id, x)]

\* put a source tree under dir (a checkout, or a directory the operator has)
RECURSIVE PlaceAll(_, _, _, _)
PlaceAll(f, dir, tree, todo) ==
  IF todo = {} THEN f
  ELSE LET x == CHOOSE y \in todo : TRUE
       IN PlaceAll(WriteFile(MkdirAll(f, Dir(dir \o x)), dir \o x, tree[x]),
                   dir, tree, todo \ {x})

Place(f, dir, id) == PlaceAll(MkdirAll(f, dir), dir, TreeFiles(id), DOMAIN TreeFiles(id))

\* where the operator keeps source tree id
LocalDir(id) == <<"src", id>>

\* os.MkdirTemp("", "gitspace-plugin-*"): a fresh directory per caller
TempDir(p) == <<"tmp", IF p = 1 THEN "gitspace-plugin-1" ELSE "gitspace-plugin-2">>

RECURSIVE PlaceLocal(_, _)
PlaceLocal(f, ids) ==
  IF ids = {} THEN f
  ELSE LET id == CHOOSE i \in ids : TRUE
       IN PlaceLocal(Place(f, LocalDir(id), id), ids \ {id})

\* the machine before the first use of the plugin host: the operator's
\* source trees, /etc/passwd, a temp directory, and no plugins directory yet
InitFs ==
  PlaceLocal(WriteFile(MkdirAll(MkdirAll(MkdirAll([files |-> << >>, dirs |-> {}],
                                                  <<"home">>), <<"tmp">>), <<"etc">>),
                       <<"etc", "passwd">>, Foreign),
             PkgIds)

\* the Gitspace Catalog index (lib.GitspaceCatalog.Plugins): item -> entry
CatalogItems == {"A", "B", "I", "nopath"}

CatalogPlugins ==
  [i \in CatalogItems |-> [Path |-> IF i = "nopath" THEN <<>> ELSE <<"plugins", i>>]]

\* the files the catalog repository serves under raw.githubusercontent.com
CatalogRepo == CatalogItems \cap PkgIds

Served(urlPath) ==
  \E id \in CatalogRepo : \E x \in DOMAIN TreeFiles(id) : Clean(urlPath) = <<"plugins", id>> \o x

ServedData(urlPath) ==
  LET id == CHOOSE i \in CatalogRepo : \E x \in DOMAIN TreeFiles(i) :
                                     Clean(urlPath) = <<"plugins", i>> \o x
  IN TreeFiles(id)[RelTo(Clean(urlPath), <<"plugins", id>>)]

\* the repositories git can clone
RemoteRepos == {"A", "C", "I"}

\* a plugin reference: the source string, as its scheme prefix and the rest
Ref(prefix, rest) == [prefix |-> prefix, rest |-> rest]

\* the scheme a repository is published under
RemoteScheme(id) == IF id = "C" THEN "http://" ELSE "https://"

\* local paths that are no directory: a manifest file, a file that is no
\* manifest, and a path that does not exist
LocalFiles ==
  { LocalDir("A") \o <<ManifestName>>, LocalDir("A") \o <<"main.go">>, <<"src", "nowhere">> }

Refs ==
  { Ref("catalog://", <<i>>) : i \in CatalogItems \cup {"nonexistent"} }
    \cup { Ref(RemoteScheme(id), <<id>>) : id \in RemoteRepos }
    \cup { Ref("", LocalDir(id)) : id \in PkgIds }
    \cup { Ref("", x) : x \in LocalFiles }

\* ------------------------------------------------------------------------
\* loadPluginManifest, copyFile, downloadFile, the go tool
\* ------------------------------------------------------------------------

NoPath == <<"<none>">>

\* the zero value of PluginManifest
NoManifest == [name |-> << >>, sources |-> << >>]

Ok == [kind |-> "ok", path |-> << >>]
Err(kind) == [kind |-> kind, path |-> << >>]
ErrAt(kind, path) == [kind |-> kind, path |-> path]

\* loadPluginManifest: os.ReadFile, then toml.Unmarshal into the struct.
\* It fails when the file cannot be read or is no TOML document, and
\* checks nothing else.
LoadFails(f, path) ==
  \/ ~IsFile(f, path)
  \/ f.files[path].type # "toml"
  \/ ~f.files[path].wellFormed

LoadedManifest(f, path) ==
  [name |-> f.files[path].name, sources |-> f.files[path].sources]

\* copyFile that treats an unreadable source as nothing to copy
CopyFileSkipMissing(f, src, dst) ==
  IF ~MkdirAllOk(f, Dir(dst)) THEN [ok |-> FALSE, fs |-> f]
  ELSE LET f1 == MkdirAll(f, Dir(dst))
       IN IF ~IsFile(f1, src) THEN [ok |-> TRUE, fs |-> f1]
          ELSE IF ~WriteOk(f1, dst) THEN [ok |-> FALSE, fs |-> f1]
          ELSE [ok |-> TRUE, fs |-> WriteFile(f1, dst, f1.files[src])]

\* copyFile(src, dst): MkdirAll(Dir(dst)), ReadFile(src), WriteFile(dst).
\* The directory is made before the source is read.
CopyFile(f, src, dst) ==
  IF ~MkdirAllOk(f, Dir(dst)) THEN [ok |-> FALSE, fs |-> f]
  ELSE LET f1 == MkdirAll(f, Dir(dst))
       IN IF ~IsFile(f1, src) \/ ~WriteOk(f1, dst)
          THEN [ok |-> FALSE, fs |-> f1]
          ELSE [ok |-> TRUE, fs |-> WriteFile(f1, dst, f1.files[src])]

\* downloadFile(url, filepath): http.Get, status 200, os.Create, io.Copy.
\* net says whether the request got through; os.Create makes no directory.
DownloadFile(f, url, path, net) ==
  IF net /\ Served(url) /\ WriteOk(f, path)
  THEN [ok |-> TRUE, fs |-> WriteFile(f, path, ServedData(url))]
  ELSE [ok |-> FALSE, fs |-> f]

\* go.mod as `go mod init` writes it, and after `go mod edit -go` and
\* `go mod tidy`
GoModInitial(name) == [type |-> "gomod", from |-> [type |-> "init", module |-> name],
                       go |-> "default", tidy |-> FALSE]
GoModEdited(data) ==
  IF data.type = "gomod" THEN [data EXCEPT !.go = "runtime"]
  ELSE [type |-> "gomod", from |-> data, go |-> "runtime", tidy |-> FALSE]
GoModTidied(data) == [data EXCEPT !.tidy = TRUE]
GoSum == [type |-> "gosum"]

\* `go mod tidy` writes a go.sum when a Go file of the module imports
\* other modules
NeedsSum(f, dir) ==
  \E x \in DOMAIN f.files :
     /\ Inside(x, dir)
     /\ f.files[x].type = "src"
     /\ Packages[f.files[x].pkg].deps

\* ------------------------------------------------------------------------
\* installPlugin, one caller p; a step per call the code makes
\* ------------------------------------------------------------------------

Procs == {1, 2}

Idle == [pc |-> "idle", source |-> Ref("", << >>), manifestPath |-> NoPath,
         sourceDir |-> NoPath, manifest |-> NoManifest, k |-> 0,
         tempDir |-> NoPath, rawURL |-> NoPath, nested |-> FALSE, err |-> Ok]

ReturnNoDefer(s, err) == [s EXCEPT !.err = err, !.pc = "returned"]

\* a return statement: deferred os.RemoveAll(tempDir) runs before the
\* caller sees the result
Return(s, err) ==
  [s EXCEPT !.err = err, !.pc = IF s.tempDir # NoPath THEN "defer" ELSE "returned"]

\* the plugins directory itself, the name left out
PluginDirFlat(m) == PluginsDir

\* filepath.Join(pluginsDir, manifest.Plugin.Name)
PluginDir(m) == Join(PluginsDir, m.name)

\* filepath.Ext(path) == ".toml"
TomlFiles == {ManifestName, "plugin.toml"}
\* no look at the extension: every file counts as a manifest
AnyExt(path) == TRUE

HasTomlExt(path) == path # << >> /\ path[Len(path)] \in TomlFiles

\* installPlugin from its first line to the manifest path: getPluginsDir,
\* then the strategy chosen from the source string
Enter(p, s, source) ==
  IF ~MkdirAllOk(fs, PluginsDir)
  THEN [fs |-> fs, st |-> Return(s, Err("pluginsDir"))]
  ELSE LET f1 == MkdirAll(fs, PluginsDir)
       IN IF source.prefix = "catalog://"
          THEN [fs |-> f1, st |-> [s EXCEPT !.pc = "fetch"]]
          ELSE IF source.prefix \in {"http://", "https://"}
          THEN [fs |-> MkdirAll(f1, TempDir(p)),
                st |-> [s EXCEPT !.pc = "clone", !.tempDir = TempDir(p)]]
          ELSE LET abs == Clean(source.rest)
               IN IF ~Exists(f1, abs)
                  THEN [fs |-> f1, st |-> Return(s, Err("sourceInfo"))]
                  ELSE IF IsDir(f1, abs)
                  THEN [fs |-> f1,
                        st |-> [s EXCEPT !.pc = "load", !.sourceDir = abs,
                                         !.manifestPath = Join(abs, <<ManifestName>>)]]
                  ELSE IF HasTomlExt(abs)
                  THEN [fs |-> f1,
                        st |-> [s EXCEPT !.pc = "load", !.sourceDir = Dir(abs),
                                         !.manifestPath = abs]]
                  ELSE [fs |-> f1, st |-> Return(s, Err("invalidSource"))]

\* the operator runs installPlugin(source)
Call(p, sources) ==
  /\ st[p].pc = "idle"
  /\ prev.calls < MaxCalls
  /\ \E source \in sources :
       LET r == Enter(p, [Idle EXCEPT !.source = source], source)
       IN /\ fs' = r.fs
          /\ st' = [st EXCEPT ![p] = r.st]
          /\ obs' = [obs EXCEPT !.fs0[p] = fs]
  /\ prev' = [prev EXCEPT !.calls = @ + 1]
  /\ UNCHANGED host

\* plugin, ok := catalog.Plugins[catalogItem]: a missing key gives the zero
\* entry and ok = false
InCatalogUnchecked(item) == TRUE

InCatalog(item) == item \in DOMAIN CatalogPlugins

CatalogEntry(item) ==
  IF item \in DOMAIN CatalogPlugins THEN CatalogPlugins[item] ELSE [Path |-> << >>]

\* a failed download returns at once
DownloadIgnored(s, err) == [s EXCEPT !.err = err, !.pc = "catInstall"]

AbortDownload(s, err) == Return(s, err)

\* installFromGitspaceCatalog: fetch the index, look the item up, make the
\* temporary directory
FetchCatalog(p) ==
  /\ st[p].pc = "fetch"
  /\ \E net \in BOOLEAN :
       LET s == st[p]
           item == s.source.rest[1]
       IN IF ~net
          THEN /\ st' = [st EXCEPT ![p] = Return(s, Err("fetchCatalog"))]
               /\ fs' = fs
          ELSE IF ~InCatalog(item)
          THEN /\ st' = [st EXCEPT ![p] = Return(s, Err("notInCatalog"))]
               /\ fs' = fs
          ELSE IF CatalogEntry(item).Path = << >>
          THEN /\ st' = [st EXCEPT ![p] = Return(s, Err("noPath"))]
               /\ fs' = fs
          ELSE /\ st' = [st EXCEPT ![p] = [s EXCEPT !.pc = "dlManifest",
                                                   !.tempDir = TempDir(p),
                                                   !.rawURL = CatalogEntry(item).Path]]
               /\ fs' = MkdirAll(fs, TempDir(p))
  /\ UNCHANGED <<prev, obs, host>>

\* download gitspace-plugin.toml into the temporary directory and parse it
DownloadManifest(p) ==
  /\ st[p].pc = "dlManifest"
  /\ \E net \in BOOLEAN :
       LET s == st[p]
           path == Join(s.tempDir, <<ManifestName>>)
           d == DownloadFile(fs, s.rawURL \o <<ManifestName>>, path, net)
       IN /\ fs' = d.fs
          /\ IF ~d.ok
             THEN st' = [st EXCEPT ![p] = AbortDownload(s, Err("downloadManifest"))]
             ELSE IF LoadFails(d.fs, path)
             THEN st' = [st EXCEPT ![p] = Return(s, Err("loadCatalogManifest"))]
             ELSE st' = [st EXCEPT ![p] =
                           [s EXCEPT !.manifest = LoadedManifest(d.fs, path),
                                     !.k = 1,
                                     !.pc = IF LoadedManifest(d.fs, path).sources = << >>
                                            THEN "catInstall" ELSE "dlSource"]]
  /\ UNCHANGED <<prev, obs, host>>

\* download the k-th declared source file
DownloadSource(p) ==
  /\ st[p].pc = "dlSource"
  /\ \E net \in BOOLEAN :
       LET s == st[p]
           src == s.manifest.sources[s.k]
           d == DownloadFile(fs, s.rawURL \o src.path, Join(s.tempDir, src.path), net)
       IN /\ fs' = d.fs
          /\ IF ~d.ok
             THEN st' = [st EXCEPT ![p] = AbortDownload(s, ErrAt("downloadSource", src.path))]
             ELSE st' = [st EXCEPT ![p] =
                           [s EXCEPT !.k = @ + 1,
                                     !.pc = IF s.k = Len(s.manifest.sources)
                                            THEN "catInstall" ELSE "dlSource"]]
  /\ UNCHANGED <<prev, obs, host>>

\* return installPlugin(logger, tempDir)
CatalogInstall(p) ==
  /\ st[p].pc = "catInstall"
  /\ LET r == Enter(p, [st[p] EXCEPT !.nested = TRUE, !.manifest = NoManifest, !.k = 0],
                    Ref("", st[p].tempDir))
     IN /\ fs' = r.fs
        /\ st' = [st EXCEPT ![p] = r.st]
  /\ UNCHANGED <<prev, obs, host>>

\* gitClone(source, tempDir)
GitClone(p) ==
  /\ st[p].pc = "clone"
  /\ \E cloned \in BOOLEAN :
       LET s == st[p]
       IN IF ~cloned
          THEN /\ st' = [st EXCEPT ![p] = Return(s, Err("clone"))]
               /\ fs' = fs
          ELSE /\ st' = [st EXCEPT ![p] =
                           [s EXCEPT !.pc = "load", !.sourceDir = s.tempDir,
                                     !.manifestPath = Join(s.tempDir, <<ManifestName>>)]]
               /\ fs' = Place(fs, s.tempDir, s.source.rest[1])
  /\ UNCHANGED <<prev, obs, host>>

\* manifest, err := loadPluginManifest(manifestPath)
LoadManifest(p) ==
  /\ st[p].pc = "load"
  /\ LET s == st[p]
     IN IF LoadFails(fs, s.manifestPath)
        THEN st' = [st EXCEPT ![p] = Return(s, Err("loadManifest"))]
        ELSE st' = [st EXCEPT ![p] = [s EXCEPT !.pc = "remove",
                                              !.manifest = LoadedManifest(fs, s.manifestPath)]]
  /\ UNCHANGED <<fs, prev, obs, host>>

\* os.Remove in place of os.RemoveAll: refuses a directory that is not empty
RemoveFailsNonEmpty(f, path) == \E x \in (DOMAIN f.files) \cup f.dirs : Inside(x, path)

\* os.RemoveAll fails only on what the caller may not delete; every
\* directory of this machine is the caller's own
RemoveAllFails(f, path) == FALSE

\* os.RemoveAll(pluginDir)
RemoveExisting(p) ==
  /\ st[p].pc = "remove"
  /\ LET s == st[p]
     IN IF RemoveAllFails(fs, PluginDir(s.manifest))
        THEN /\ st' = [st EXCEPT ![p] = Return(s, Err("removeDir"))]
             /\ fs' = fs
        ELSE /\ st' = [st EXCEPT ![p] = [s EXCEPT !.pc = "mkdir"]]
             /\ fs' = RemoveAll(fs, PluginDir(s.manifest))
  /\ UNCHANGED <<prev, obs, host>>

\* os.MkdirAll(pluginDir, 0755)
CreatePluginDir(p) ==
  /\ st[p].pc = "mkdir"
  /\ LET s == st[p]
     IN IF ~MkdirAllOk(fs, PluginDir(s.manifest))
        THEN /\ st' = [st EXCEPT ![p] = Return(s, Err("createDir"))]
             /\ fs' = fs
        ELSE /\ st' = [st EXCEPT ![p] = [s EXCEPT !.pc = "copyManifest"]]
             /\ fs' = MkdirAll(fs, PluginDir(s.manifest))
  /\ UNCHANGED <<prev, obs, host>>

\* copyFile(manifestPath, <pluginDir>/gitspace-plugin.toml)
CopyManifest(p) ==
  /\ st[p].pc = "copyManifest"
  /\ LET s == st[p]
         c == CopyFile(fs, s.manifestPath, Join(PluginDir(s.manifest), <<ManifestName>>))
     IN /\ fs' = c.fs
        /\ IF ~c.ok
           THEN st' = [st EXCEPT ![p] = Return(s, Err("copyManifest"))]
           ELSE st' = [st EXCEPT ![p] =
                         [s EXCEPT !.k = 1,
                                   !.pc = IF s.manifest.sources = << >>
                                          THEN "goInit" ELSE "copySrc"]]
  /\ UNCHANGED <<prev, obs, host>>

\* one turn of the loop over manifest.Plugin.Sources
CopySource(p) ==
  /\ st[p].pc = "copySrc"
  /\ LET s == st[p]
         src == s.manifest.sources[s.k]
         c == CopyFile(fs, Join(s.sourceDir, src.path),
                       Join(PluginDir(s.manifest), src.path))
     IN /\ fs' = c.fs
        /\ IF ~c.ok
           THEN st' = [st EXCEPT ![p] = Return(s, ErrAt("copyFile", src.path))]
           ELSE st' = [st EXCEPT ![p] =
                         [s EXCEPT !.k = @ + 1,
                                   !.pc = IF s.k = Len(s.manifest.sources)
                                          THEN "goInit" ELSE "copySrc"]]
  /\ UNCHANGED <<prev, obs, host>>

GoModPath(m) == Join(PluginDir(m), <<"go.mod">>)

\* `go mod init` in pluginDir, unless go.mod is there already
GoModInit(p) ==
  /\ st[p].pc = "goInit"
  /\ \E tool \in BOOLEAN :
       LET s == st[p]
       IN IF Exists(fs, GoModPath(s.manifest))
          THEN /\ st' = [st EXCEPT ![p] = [s EXCEPT !.pc = "goEdit"]]
               /\ fs' = fs
          ELSE IF ~tool \/ ~IsDir(fs, PluginDir(s.manifest))
          THEN /\ st' = [st EXCEPT ![p] = Return(s, Err("goModInit"))]
               /\ fs' = fs
          ELSE /\ st' = [st EXCEPT ![p] = [s EXCEPT !.pc = "goEdit"]]
               /\ fs' = WriteFile(fs, GoModPath(s.manifest), GoModInitial(s.manifest.name))
  /\ UNCHANGED <<prev, obs, host>>

\* `go mod edit -go <version>` in pluginDir
GoModEdit(p) ==
  /\ st[p].pc = "goEdit"
  /\ \E tool \in BOOLEAN :
       LET s == st[p]
       IN IF ~tool \/ ~IsFile(fs, GoModPath(s.manifest))
          THEN /\ st' = [st EXCEPT ![p] = Return(s, Err("goModEdit"))]
               /\ fs' = fs
          ELSE /\ st' = [st EXCEPT ![p] = [s EXCEPT !.pc = "goTidy"]]
               /\ fs' = WriteFile(fs, GoModPath(s.manifest),
                                  GoModEdited(fs.files[GoModPath(s.manifest)]))
  /\ UNCHANGED <<prev, obs, host>>

\* `go mod tidy` in pluginDir, then return nil
GoModTidy(p) ==
  /\ st[p].pc = "goTidy"
  /\ \E tool \in BOOLEAN :
       LET s == st[p]
           dir == PluginDir(s.manifest)
           f1 == WriteFile(fs, GoModPath(s.manifest),
                           GoModTidied(fs.files[GoModPath(s.manifest)]))
       IN IF ~tool \/ ~IsFile(fs, GoModPath(s.manifest))
          THEN /\ st' = [st EXCEPT ![p] = Return(s, Err("goModTidy"))]
               /\ fs' = fs
          ELSE /\ st' = [st EXCEPT ![p] = Return(s, Ok)]
               /\ fs' = IF NeedsSum(fs, dir)
                        THEN WriteFile(f1, Join(dir, <<"go.sum">>), GoSum)
                        ELSE f1
  /\ UNCHANGED <<prev, obs, host>>

\* defer os.RemoveAll(tempDir)
Cleanup(p) ==
  /\ st[p].pc = "defer"
  /\ fs' = RemoveAll(fs, st[p].tempDir)
  /\ st' = [st EXCEPT ![p].pc = "returned"]
  /\ UNCHANGED <<prev, obs, host>>

\* the caller has the result; the host is ready for the next command
Finish(p) ==
  /\ st[p].pc = "returned"
  /\ st' = [st EXCEPT ![p] = Idle]
  /\ prev' = [prev EXCEPT !.source = st[p].source, !.ok = (st[p].err = Ok)]
  /\ UNCHANGED <<fs, obs, host>>

\* listInstalledPlugins(pluginsDir): the names of the directories directly
\* in the plugins directory
ListInstalledPlugins(f) ==
  { d[Len(d)] : d \in { e \in f.dirs : Inside(e, PluginsDir) /\ Len(e) = Len(PluginsDir) + 1 } }

\* caller p has removed the plugin directory dir and has not yet copied
\* the manifest and all sources into it
Rewriting(p, dir) ==
  /\ st[p].pc \in {"mkdir", "copyManifest", "copySrc"}
  /\ PluginDir(st[p].manifest) = dir

\* what a reader finds at dir: no directory, a directory without a
\* manifest, or a manifest with or without all the sources it declares
Found(f, dir) ==
  IF ~IsDir(f, dir) THEN "missing"
  ELSE IF LoadFails(f, Join(dir, <<ManifestName>>))
       THEN (IF \E x \in DOMAIN f.files : Inside(x, dir) THEN "partial" ELSE "empty")
       ELSE LET m == LoadedManifest(f, Join(dir, <<ManifestName>>))
            IN IF \A i \in 1..Len(m.sources) : IsFile(f, Join(dir, m.sources[i].path))
               THEN "complete" ELSE "partial"

\* Manager.discover: scan the plugins root, remember the plugin names
Discover ==
  /\ obs.discovered # ListInstalledPlugins(fs)
  /\ obs' = [obs EXCEPT !.discovered = ListInstalledPlugins(fs)]
  /\ UNCHANGED <<fs, st, prev, host>>

\* HandleRunPlugin: manager.LoadPlugin(selectedPlugin) for a discovered
\* plugin reads <pluginsRoot>/<name>
LoadPlugin ==
  /\ \E name \in obs.discovered :
       obs' = [obs EXCEPT !.load =
                 [name |-> name,
                  found |-> Found(fs, Join(PluginsDir, <<name>>)),
                  racing |-> \E p \in Procs : Rewriting(p, Join(PluginsDir, <<name>>))]]
  /\ UNCHANGED <<fs, st, prev, host>>

\* ------------------------------------------------------------------------
\* The plugin menu: HandleInstallPlugin, HandleUninstallPlugin, and
\* uninstallPlugin
\* ------------------------------------------------------------------------

\* number of menu commands one run of the host takes
MaxCommands == 3

\* the references the operator gives the install menu: a local directory, a
\* local directory with a missing source, a local manifest file, a catalog
\* item, and a repository named after its plugin
HostRefs ==
  { Ref("", LocalDir("B")), Ref("", LocalDir("C")),
    Ref("", LocalDir("A") \o <<ManifestName>>),
    Ref("catalog://", <<"A">>),
    Ref("https://", <<"H", "q">>) }

\* the names uninstallPlugin is called with
UninstallNames == {"p", "q", "absent"}

\* how os.RemoveAll can end on a directory that is there: all gone, an
\* error with nothing removed, an error after the contents were removed
RemoveOutcomes == {"removed", "denied", "emptied"}

\* the handler that is running (pc), the command it serves, what it chose
\* and called, and the Manager's set of loaded plugins
HostIdle ==
  [pc |-> "none", cmd |-> "none", commands |-> 0, selected |-> "", installed |-> NoPath,
   read |-> NoPath, loadArg |-> NoPath, removed |-> FALSE, unloadCalled |-> FALSE,
   err |-> "ok", loaded |-> {}, loaded0 |-> {}]

HostStart(cmd, pc) ==
  [HostIdle EXCEPT !.pc = pc, !.cmd = cmd, !.commands = host.commands + 1,
                   !.loaded = host.loaded, !.loaded0 = host.loaded]

\* filepath.Base(source)
Base(source) == IF source.rest = << >> THEN "." ELSE source.rest[Len(source.rest)]

\* Manager.LoadPlugin(name): nothing to do for a loaded plugin; otherwise the
\* installed plugin is started, and it is loaded when the start succeeds
ManagerLoad(registry, f, name, spawned) ==
  IF name \in registry THEN [ok |-> TRUE, loaded |-> registry]
  ELSE IF spawned /\ Found(f, Join(PluginsDir, name)) = "complete"
       THEN [ok |-> TRUE, loaded |-> registry \cup {name}]
       ELSE [ok |-> FALSE, loaded |-> registry]

\* Manager.UnloadPlugin(name): the plugin's process is terminated and the
\* entry is no longer loaded
ManagerUnload(registry, name, terminated) ==
  IF terminated THEN [ok |-> TRUE, loaded |-> registry \ {name}]
  ELSE [ok |-> FALSE, loaded |-> registry]

\* the name left out of the path: the plugins directory itself is removed
uninstallPluginsDir(f, name, outcome) ==
  [ok |-> MkdirAllOk(f, PluginsDir), fs |-> RemoveAll(f, PluginsDir)]

\* uninstallPlugin(name): getPluginsDir, then os.RemoveAll(<pluginsDir>/<name>);
\* a path that is not there is removed without error
uninstallPlugin(f, name, outcome) ==
  IF ~MkdirAllOk(f, PluginsDir) THEN [ok |-> FALSE, fs |-> f]
  ELSE LET f1 == MkdirAll(f, PluginsDir)
           pluginDir == Join(PluginsDir, <<name>>)
       IN IF outcome = "removed" \/ ~Exists(f1, pluginDir)
          THEN [ok |-> TRUE, fs |-> RemoveAll(f1, pluginDir)]
          ELSE IF outcome = "denied"
          THEN [ok |-> FALSE, fs |-> f1]
          ELSE [ok |-> FALSE, fs |-> MkdirAll(RemoveAll(f1, pluginDir), pluginDir)]

\* HandleInstallPlugin up to the call of InstallPlugin(source)
HandleInstallPlugin(p) ==
  /\ st[p].pc = "idle"
  /\ host.pc = "none"
  /\ host.commands < MaxCommands
  /\ \E source \in HostRefs :
       LET r == Enter(p, [Idle EXCEPT !.source = source], source)
       IN /\ fs' = r.fs
          /\ st' = [st EXCEPT ![p] = r.st]
          /\ obs' = [obs EXCEPT !.fs0[p] = fs]
  /\ host' = HostStart("HandleInstallPlugin", "install")
  /\ UNCHANGED prev

\* HandleInstallPlugin after InstallPlugin has returned: on success read
\* <pluginsDir>/<Base(source)>/gitspace-plugin.toml and load the plugin it
\* names
InstallReturned(p) ==
  /\ host.pc = "install"
  /\ st[p].pc = "returned"
  /\ \E spawned \in BOOLEAN :
       LET s == st[p]
           manifestPath == Join(PluginsDir, <<Base(s.source), ManifestName>>)
           h == [host EXCEPT !.pc = "none", !.installed = s.manifest.name]
       IN IF s.err # Ok
          THEN /\ fs' = fs
               /\ host' = [h EXCEPT !.err = "install", !.installed = NoPath]
          ELSE IF ~MkdirAllOk(fs, PluginsDir)
          THEN /\ fs' = fs
               /\ host' = [h EXCEPT !.err = "pluginsDir"]
          ELSE /\ fs' = MkdirAll(fs, PluginsDir)
               /\ IF LoadFails(fs', manifestPath)
                  THEN host' = [h EXCEPT !.read = manifestPath, !.err = "loadManifest"]
                  ELSE LET pluginName == LoadedManifest(fs', manifestPath).name
                           l == ManagerLoad(host.loaded, fs', pluginName, spawned)
                       IN host' = [h EXCEPT !.read = manifestPath, !.loadArg = pluginName,
                                            !.loaded = l.loaded,
                                            !.err = IF l.ok THEN "ok" ELSE "loadPlugin"]
  /\ st' = [st EXCEPT ![p] = Idle]
  /\ UNCHANGED <<prev, obs>>

\* the handler goes on to UnloadPlugin whatever UninstallPlugin returned
AfterUninstallIgnored(h, ok) == [h EXCEPT !.pc = "unload", !.removed = ok]

\* if err != nil { return ... } after UninstallPlugin
AfterUninstall(h, ok) ==
  IF ok THEN [h EXCEPT !.pc = "unload", !.removed = TRUE]
  ELSE [h EXCEPT !.pc = "none", !.err = "uninstall"]

\* HandleUninstallPlugin up to the return of UninstallPlugin: list the
\* installed plugins, return if there are none, take the operator's choice
\* and remove its directory
HandleUninstallPlugin(p) ==
  /\ st[p].pc = "idle"
  /\ host.pc = "none"
  /\ host.commands < MaxCommands
  /\ IF ~MkdirAllOk(fs, PluginsDir)
     THEN /\ fs' = fs
          /\ host' = [HostStart("HandleUninstallPlugin", "none") EXCEPT !.err = "list"]
     ELSE LET f1 == MkdirAll(fs, PluginsDir)
              plugins == ListInstalledPlugins(f1)
          IN IF plugins = {}
             THEN /\ fs' = f1
                  /\ host' = HostStart("HandleUninstallPlugin", "none")
             ELSE \E selectedPlugin \in plugins : \E outcome \in RemoveOutcomes :
                    LET u == uninstallPlugin(f1, selectedPlugin, outcome)
                    IN /\ fs' = u.fs
                       /\ host' = AfterUninstall(
                                    [HostStart("HandleUninstallPlugin", "uninstall")
                                       EXCEPT !.selected = selectedPlugin], u.ok)
  /\ obs' = [obs EXCEPT !.fs0[p] = fs]
  /\ UNCHANGED <<st, prev>>

\* HandleUninstallPlugin from manager.UnloadPlugin(selectedPlugin) to its
\* return
UnloadSelected ==
  /\ host.pc = "unload"
  /\ \E terminated \in BOOLEAN :
       LET u == ManagerUnload(host.loaded, <<host.selected>>, terminated)
       IN host' = [host EXCEPT !.pc = "none", !.unloadCalled = TRUE, !.loaded = u.loaded,
                               !.err = IF u.ok THEN "ok" ELSE "unload"]
  /\ UNCHANGED <<fs, st, prev, obs>>

\* uninstallPlugin(name) for a name the operator types
CallUninstall(p) ==
  /\ st[p].pc = "idle"
  /\ host.pc = "none"
  /\ host.commands < MaxCommands
  /\ \E name \in UninstallNames : \E outcome \in RemoveOutcomes :
       LET u == uninstallPlugin(fs, name, outcome)
       IN /\ fs' = u.fs
          /\ host' = [HostStart("uninstallPlugin", "none")
                        EXCEPT !.selected = name, !.removed = u.ok,
                               !.err = IF u.ok THEN "ok" ELSE "uninstall"]
  /\ obs' = [obs EXCEPT !.fs0[p] = fs]
  /\ UNCHANGED <<st, prev>>

\* ------------------------------------------------------------------------
\* Specifications
\* ------------------------------------------------------------------------

Init ==
  /\ fs = InitFs
  /\ st = [p \in Procs |-> Idle]
  /\ prev = [calls |-> 0, source |-> Ref("", << >>), ok |-> FALSE]
  /\ obs = [fs0 |-> [p \in Procs |-> InitFs], discovered |-> {},
            load |-> [name |-> "", found |-> "nothing", racing |-> FALSE]]
  /\ host = HostIdle

\* the steps of resolving a catalog or remote reference
ResolveStep(p) ==
  \/ FetchCatalog(p) \/ DownloadManifest(p) \/ DownloadSource(p) \/ CatalogInstall(p)
  \/ GitClone(p) \/ Cleanup(p)

\* the steps of the installer proper
CopySteps(p) ==
  \/ LoadManifest(p) \/ RemoveExisting(p) \/ CreatePluginDir(p)
  \/ CopyManifest(p) \/ CopySource(p) \/ GoModInit(p) \/ GoModEdit(p) \/ GoModTidy(p)

InstallStep(p) == CopySteps(p) \/ Finish(p)

\* one host, one command at a time
Next == Call(1, Refs) \/ ResolveStep(1) \/ InstallStep(1)

Spec == Init /\ [][Next]_vars

\* the references two hosts install at the same time
ConcurrentRefs == { Ref("", LocalDir("A")), Ref("", LocalDir("B")) }

\* two hosts of one user install from local directories while a plugin
\* menu discovers and loads plugins
NextConcurrent ==
  \/ \E p \in Procs : Call(p, ConcurrentRefs) \/ InstallStep(p)
  \/ Discover
  \/ LoadPlugin

SpecConcurrent == Init /\ [][NextConcurrent]_vars

\* one host whose operator installs and uninstalls through the plugin menu
NextHost ==
  \/ HandleInstallPlugin(1) \/ ResolveStep(1) \/ CopySteps(1) \/ InstallReturned(1)
  \/ HandleUninstallPlugin(1) \/ UnloadSelected
  \/ CallUninstall(1)

SpecHost == Init /\ [][NextHost]_vars

\* ------------------------------------------------------------------------
\* What the claims speak of
\* ------------------------------------------------------------------------

Returned(p) == st[p].pc = "returned"

\* the file system when the call began
Before(p) == obs.fs0[p]

\* the source tree the reference names, when it names one
PkgOf(p) ==
  LET rest == st[p].source.rest
  IN IF HasTomlExt(rest) THEN rest[Len(rest) - 1] ELSE rest[Len(rest)]

TargetKnown(p) == PkgOf(p) \in PkgIds /\ Packages[PkgOf(p)].wellFormed

\* errors raised while the source is still being resolved and staged
StagingErrors ==
  {"pluginsDir", "sourceInfo", "invalidSource", "clone", "fetchCatalog", "notInCatalog",
   "noPath", "downloadManifest", "loadCatalogManifest", "downloadSource"}

\* the call went as far as reading the staged manifest
Staged(p) == Returned(p) /\ st[p].err.kind \notin StagingErrors

\* <pluginsRoot>/<name>
DestOf(name) == PluginsDir \o name

\* a relative path that leaves the directory it is resolved against
Escapes(rel) ==
  LET base == [i \in 1..Len(rel) |-> "_"]
  IN ~Under(Clean(base \o rel), base)

DeclaresEscape(m) == \E i \in 1..Len(m.sources) : Escapes(m.sources[i].path)

\* the manifest invariants of the data model, and non-empty entry points
Invalid(m) ==
  \/ m.name = << >>
  \/ m.sources = << >>
  \/ \E i \in 1..Len(m.sources) : m.sources[i].entry_point = ""

FilesOutside(f, dir) ==
  [x \in { y \in DOMAIN f.files : ~Under(y, dir) } |-> f.files[x]]

\* what <pluginsRoot>/<name> holds after a complete install of tree id
InstallView(id) ==
  LET m == Packages[id]
      paths == { Clean(m.sources[i].path) :
                   i \in { j \in 1..Len(m.sources) : ~Escapes(m.sources[j].path) } }
      mod == GoModTidied(GoModEdited(IF <<"go.mod">> \in paths
                                     THEN SourceFile(id, <<"go.mod">>)
                                     ELSE GoModInitial(m.name)))
  IN [files |-> { << <<ManifestName>>, ManifestDoc(id) >>, << <<"go.mod">>, mod >> }
                  \cup { <<x, SourceFile(id, x)>> : x \in paths \ { <<"go.mod">> } }
                  \cup (IF m.deps THEN { << <<"go.sum">>, GoSum >> } ELSE {}),
      dirs  |-> UNION { Ancestors(Dir(x)) \ { << >> } : x \in paths }]

\* tree id can be installed whole
Installable(id) ==
  /\ Packages[id].wellFormed
  /\ \A i \in 1..Len(Packages[id].sources) :
       \/ Packages[id].sources[i].path \in Packages[id].present
       \/ Escapes(Packages[id].sources[i].path)

\* when the call began, dir held a complete install
PriorComplete(p, dir) ==
  /\ IsDir(Before(p), dir)
  /\ \E id \in PkgIds :
       /\ Installable(id)
       /\ DestOf(Packages[id].name) = dir
       /\ DirView(Before(p), dir) = InstallView(id)

\* dir holds the manifest and every declared source of tree id
CopiedAll(f, dir, id) ==
  /\ IsFile(f, dir \o <<ManifestName>>)
  /\ f.files[dir \o <<ManifestName>>] = ManifestDoc(id)
  /\ \A i \in 1..Len(Packages[id].sources) :
       IsFile(f, Clean(dir \o Packages[id].sources[i].path))

\* C1: a manifest that declares a source path escaping the staging root
\* makes installPlugin fail with a manifest error, and no file outside
\* <pluginsRoot>/<name> is written.
C1_PathEscapeRejected ==
  \A p \in Procs :
    (Staged(p) /\ TargetKnown(p) /\ DeclaresEscape(Packages[PkgOf(p)]))
      => /\ st[p].err.kind = "loadManifest"
         /\ FilesOutside(fs, DestOf(Packages[PkgOf(p)].name))
              = FilesOutside(Before(p), DestOf(Packages[PkgOf(p)].name))

\* C2: a staged manifest with an empty name, no sources or an empty
\* entry_point makes installPlugin fail at manifest loading, before the
\* removal step, and the plugins root is as it was.
C2_ValidateBeforeDestroy ==
  \A p \in Procs :
    (Staged(p) /\ TargetKnown(p) /\ Invalid(Packages[PkgOf(p)]))
      => /\ st[p].err.kind = "loadManifest"
         /\ DirView(fs, PluginsDir) = DirView(Before(p), PluginsDir)

\* C3 as claimed: whenever installPlugin returns, with success or with any
\* error, for a plugin name that was installed, <pluginsRoot>/<name> holds
\* the complete prior install or the complete new one.
C3_AtomicOverwrite ==
  \A p \in Procs :
    (Returned(p) /\ TargetKnown(p) /\ PriorComplete(p, DestOf(Packages[PkgOf(p)].name)))
      => \/ DirView(fs, DestOf(Packages[PkgOf(p)].name))
              = DirView(Before(p), DestOf(Packages[PkgOf(p)].name))
         \/ CopiedAll(fs, DestOf(Packages[PkgOf(p)].name), PkgOf(p))

\* errors raised before the removal step by path lookup, clone, catalog
\* fetch and lookup, and manifest loading
EarlyErrors ==
  {"pluginsDir", "sourceInfo", "invalidSource", "clone", "fetchCatalog", "notInCatalog",
   "noPath", "loadCatalogManifest", "loadManifest"}

\* C3 as amended: for a plugin name that was installed, a successful return
\* leaves exactly the complete new install in <pluginsRoot>/<name>, and a
\* return with an error of path lookup, clone, catalog fetch or lookup, or
\* manifest loading leaves the prior install as it was.
C3_OverwriteOnSuccess ==
  \A p \in Procs :
    (Returned(p) /\ TargetKnown(p) /\ PriorComplete(p, DestOf(Packages[PkgOf(p)].name)))
      => /\ st[p].err = Ok =>
              DirView(fs, DestOf(Packages[PkgOf(p)].name)) = InstallView(PkgOf(p))
         /\ st[p].err.kind \in EarlyErrors =>
              DirView(fs, DestOf(Packages[PkgOf(p)].name))
                = DirView(Before(p), DestOf(Packages[PkgOf(p)].name))

\* a reinstall of p with another source set has returned success
C3_Witness ==
  /\ Returned(1) /\ st[1].err = Ok /\ PkgOf(1) = "A"
  /\ PriorComplete(1, DestOf(<<"p">>))
  /\ DirView(Before(1), DestOf(<<"p">>)) = InstallView("B")

\* failures of the network and of the go tool
ExternalErrors ==
  {"clone", "fetchCatalog", "downloadManifest", "downloadSource",
   "goModInit", "goModEdit", "goModTidy"}

\* the call that has returned repeats the reference of the call before it,
\* which succeeded
SecondRun(p) ==
  /\ Returned(p)
  /\ prev.ok
  /\ prev.source = st[p].source

\* C4: installing an unchanged reference a second time, right after it was
\* installed with success, leaves <pluginsRoot>/<name> with the files,
\* directories and contents the first install left, and the second run
\* fails only when the network or the go tool fails.
C4_OverwriteIdempotent ==
  \A p \in Procs :
    SecondRun(p)
      => /\ st[p].err.kind \in ExternalErrors \cup {"ok"}
         /\ st[p].err = Ok =>
              DirView(fs, DestOf(st[p].manifest.name))
                = DirView(Before(p), DestOf(st[p].manifest.name))

\* the second of two successful installs of one reference, with two sources
\* and a go.sum, has returned
C4_Witness ==
  /\ SecondRun(1) /\ st[1].err = Ok /\ PkgOf(1) = "B"
  /\ DirView(fs, DestOf(<<"p">>)) = InstallView("B")

\* the files directly or deeper in dir, by absolute path
FilesIn(f, dir) == { x \in DOMAIN f.files : Inside(x, dir) }

DeclaredAt(m, dir) == { Clean(dir \o m.sources[i].path) : i \in 1..Len(m.sources) }

SingleName(name) == Len(name) = 1 /\ name[1] \notin {"", ".", ".."}

\* C5 as claimed: on success <pluginsRoot>/<manifest.name> holds exactly the
\* manifest file and the declared source files, nothing else, and the
\* plugin name is in the listing of installed plugins.
C5_ExactlyManifestAndSources ==
  \A p \in Procs :
    (Returned(p) /\ st[p].err = Ok)
      => /\ FilesIn(fs, DestOf(st[p].manifest.name))
              = { DestOf(st[p].manifest.name) \o <<ManifestName>> }
                  \cup DeclaredAt(st[p].manifest, DestOf(st[p].manifest.name))
         /\ st[p].manifest.name \in { <<n>> : n \in ListInstalledPlugins(fs) }

\* C5 as amended: on success the manifest file and every declared source
\* file are at their paths resolved against <pluginsRoot>/<manifest.name>,
\* that directory holds no file besides them and the go.mod and go.sum of
\* the build bootstrapping, go.mod is there, and a name that is one path
\* element is in the listing of installed plugins.
C5_InstallPostCondition ==
  \A p \in Procs :
    (Returned(p) /\ st[p].err = Ok)
      => LET m == st[p].manifest
             dir == DestOf(m.name)
         IN /\ IsFile(fs, dir \o <<ManifestName>>)
            /\ LoadedManifest(fs, dir \o <<ManifestName>>) = m
            /\ DeclaredAt(m, dir) \subseteq DOMAIN fs.files
            /\ \A i \in 1..Len(m.sources) :
                 m.sources[i].path \in Packages[PkgOf(p)].present \ { <<"go.mod">> }
                   => fs.files[Clean(dir \o m.sources[i].path)]
                        = SourceFile(PkgOf(p), m.sources[i].path)
            /\ FilesIn(fs, dir) \subseteq
                 { dir \o <<ManifestName>>, dir \o <<"go.mod">>, dir \o <<"go.sum">> }
                   \cup DeclaredAt(m, dir)
            /\ IsFile(fs, dir \o <<"go.mod">>)
            /\ SingleName(m.name) => m.name[1] \in ListInstalledPlugins(fs)

\* an install with a nested source path has returned success while another
\* plugin is installed too
C5_Witness ==
  /\ Returned(1) /\ st[1].err = Ok /\ PkgOf(1) = "B"
  /\ ListInstalledPlugins(fs) = {"p", "q"}

\* the first declared source of tree id that the tree does not have
Missing(id, i) ==
  /\ ~Escapes(Packages[id].sources[i].path)
  /\ Packages[id].sources[i].path \notin Packages[id].present

HasMissing(id) == \E i \in 1..Len(Packages[id].sources) : Missing(id, i)

FirstMissing(id) ==
  CHOOSE i \in 1..Len(Packages[id].sources) :
    Missing(id, i) /\ \A j \in 1..(i - 1) : ~Missing(id, j)

\* C6: when the k-th declared source is the first one absent from the staged
\* root, installPlugin returns the copy error naming that path, and the
\* destination holds the manifest and the first k-1 sources only (with the
\* directories made for the first k paths): no later source, no go.mod, no
\* file of the prior install; everything outside the destination is as it
\* was.
C6_MissingSourceFile ==
  \A p \in Procs :
    (Staged(p) /\ TargetKnown(p) /\ HasMissing(PkgOf(p)))
      => LET id == PkgOf(p)
             m == Packages[id]
             k == FirstMissing(id)
             dir == DestOf(m.name)
         IN /\ st[p].err = ErrAt("copyFile", m.sources[k].path)
            /\ DirView(fs, dir)
                 = [files |-> { << <<ManifestName>>, ManifestDoc(id) >> }
                                \cup { << m.sources[i].path, SourceFile(id, m.sources[i].path) >> :
                                         i \in 1..(k - 1) },
                    dirs  |-> UNION { Ancestors(Dir(m.sources[i].path)) \ { << >> } :
                                        i \in 1..k }]
            /\ FilesOutside(fs, dir) = FilesOutside(Before(p), dir)

\* an install over a complete prior install has failed at its second source
C6_Witness ==
  /\ Returned(1) /\ st[1].err.kind = "copyFile" /\ st[1].k = 2
  /\ PriorComplete(1, DestOf(<<"p">>))
  /\ DirView(Before(1), DestOf(<<"p">>)) = InstallView("B")

\* the caller p is resolving catalog://<item> for an item the catalog lacks
ResolvingUnknownItem(p) ==
  /\ st[p].pc # "idle"
  /\ st[p].source.prefix = "catalog://"
  /\ st[p].source.rest[1] \notin DOMAIN CatalogPlugins

\* C7: resolving catalog://<name> for a name that is no key of the catalog
\* ends with the not-found error (or the failed fetch of the index); at no
\* moment of the call is there a temporary directory, a downloaded file, or
\* a change below the plugins root.
C7_MissingCatalogEntry ==
  \A p \in Procs :
    ResolvingUnknownItem(p)
      => /\ st[p].pc \in {"fetch", "returned"}
         /\ st[p].pc = "returned" => st[p].err.kind \in {"notInCatalog", "fetchCatalog"}
         /\ st[p].tempDir = NoPath
         /\ ~Exists(fs, TempDir(p))
         /\ fs.files = Before(p).files
         /\ DirView(fs, PluginsDir) = DirView(Before(p), PluginsDir)

\* the lookup has failed while a plugin is installed
C7_Witness ==
  /\ ResolvingUnknownItem(1) /\ Returned(1) /\ st[1].err.kind = "notInCatalog"
  /\ "p" \in ListInstalledPlugins(fs)

\* C8: once a download of the manifest or of a source file has failed, the
\* catalog resolution is returning: the error names the file it stopped at,
\* installPlugin has not been entered for the staging directory, and
\* nothing below the plugins root differs from before the call.
C8_NoPartialCatalogInstall ==
  \A p \in Procs :
    st[p].err.kind \in {"downloadManifest", "downloadSource"}
      => /\ st[p].pc \in {"defer", "returned"}
         /\ ~st[p].nested
         /\ st[p].err.kind = "downloadSource" =>
              st[p].err.path = st[p].manifest.sources[st[p].k].path
         /\ DirView(fs, PluginsDir) = DirView(Before(p), PluginsDir)

\* the download of the second source has failed after the first was staged,
\* while a plugin is installed
C8_Witness ==
  /\ Returned(1) /\ st[1].err.kind = "downloadSource" /\ st[1].k = 2
  /\ "p" \in ListInstalledPlugins(fs)

\* the steps that read the staging directory
ReadingSteps ==
  {"dlManifest", "dlSource", "catInstall", "clone", "load", "remove", "mkdir",
   "copyManifest", "copySrc"}

\* C9: a temporary staging directory is there for as long as the resolver
\* and the installer read from it, and no temporary directory is left when
\* the top-level call has returned, whatever the result.
C9_ScopedStagingDirs ==
  \A p \in Procs :
    /\ (st[p].pc \in ReadingSteps /\ st[p].tempDir # NoPath) => IsDir(fs, st[p].tempDir)
    /\ st[p].pc \in {"returned", "idle"} =>
         ~\E x \in (DOMAIN fs.files) \cup fs.dirs : Under(x, TempDir(p))

\* a catalog install that went through the installer has returned success
C9_Witness ==
  /\ Returned(1) /\ st[1].err = Ok /\ st[1].nested
  /\ st[1].tempDir = TempDir(1)

\* C10: the installer holds an exclusive lock on <pluginsRoot>/<name> from
\* the removal step until all sources are copied: no two installers are
\* between removal and the end of the copy for one directory at a time, and
\* no Load reads a plugin directory that an installer is rewriting (so none
\* finds it missing, empty or partly copied).
C10_ReinstallExclusion ==
  /\ \A p \in Procs : \A q \in Procs \ {p} :
       ~(Rewriting(p, PluginDir(st[p].manifest)) /\ Rewriting(q, PluginDir(st[p].manifest)))
  /\ obs.load.racing => obs.load.found = "complete"

\* what a local path is when the call begins
LocalShape(f, path) ==
  IF IsDir(f, path) THEN "dir"
  ELSE IF IsFile(f, path) /\ path[Len(path)] \in TomlFiles THEN "manifestFile"
  ELSE "other"

CatalogSteps == {"fetch", "dlManifest", "dlSource", "catInstall"}

CatalogErrors ==
  {"fetchCatalog", "notInCatalog", "noPath", "downloadManifest", "loadCatalogManifest",
   "downloadSource"}

\* the steps that follow the choice of manifest path and source root
AfterDispatch ==
  {"load", "remove", "mkdir", "copyManifest", "copySrc", "goInit", "goEdit", "goTidy"}

LocalErrors == {"sourceInfo", "invalidSource"}

\* C11: the strategy follows from the reference alone.  A catalog:// reference
\* goes through the catalog lookup and never clones; an http:// or https://
\* reference goes through git clone into a temporary directory, which is the
\* source root; anything else is a local path with no temporary directory:
\* a directory gives <dir>/gitspace-plugin.toml with source root <dir>, a
\* file with the manifest extension gives that file with its parent as source
\* root, and every other shape (a path that does not exist too) returns the
\* invalid-source error with nothing below the plugins root changed.
C11_ReferenceDispatch ==
  \A p \in Procs :
    st[p].pc # "idle" =>
      LET s == st[p]
          abs == Clean(s.source.rest)
          shape == LocalShape(Before(p), abs)
      IN IF s.source.prefix = "catalog://"
         THEN /\ s.pc # "clone"
              /\ ~s.nested => /\ s.pc \in CatalogSteps \cup {"defer", "returned"}
                              /\ s.pc \in {"defer", "returned"} => s.err.kind \in CatalogErrors
              /\ s.nested => /\ s.tempDir = TempDir(p)
                             /\ s.err.kind \notin CatalogErrors \cup LocalErrors \cup {"clone"}
                             /\ s.sourceDir = s.tempDir
                             /\ s.manifestPath = Join(s.tempDir, <<ManifestName>>)
         ELSE IF s.source.prefix \in {"http://", "https://"}
         THEN /\ ~s.nested /\ s.rawURL = NoPath /\ s.pc \notin CatalogSteps
              /\ s.tempDir = TempDir(p)
              /\ s.err.kind \notin CatalogErrors \cup LocalErrors
              /\ \/ s.pc = "clone"
                 \/ s.err.kind = "clone" /\ s.manifest = NoManifest
                 \/ /\ s.sourceDir = s.tempDir
                    /\ s.manifestPath = Join(s.tempDir, <<ManifestName>>)
         ELSE /\ ~s.nested /\ s.rawURL = NoPath /\ s.tempDir = NoPath
              /\ s.pc \notin CatalogSteps \cup {"clone", "defer"}
              /\ s.err.kind \notin CatalogErrors \cup {"clone"}
              /\ shape = "dir" =>
                   /\ s.sourceDir = abs
                   /\ s.manifestPath = Join(abs, <<ManifestName>>)
                   /\ s.err.kind \notin LocalErrors
              /\ shape = "manifestFile" =>
                   /\ s.sourceDir = Dir(abs)
                   /\ s.manifestPath = abs
                   /\ s.err.kind \notin LocalErrors
              /\ shape = "other" =>
                   /\ s.pc = "returned"
                   /\ s.err.kind \in LocalErrors
                   /\ s.manifest = NoManifest
                   /\ fs.files = Before(p).files
                   /\ DirView(fs, PluginsDir) = DirView(Before(p), PluginsDir)

\* an install from a manifest file has returned success with the file's
\* directory as source root
C11_Witness ==
  /\ Returned(1) /\ st[1].err = Ok
  /\ st[1].source = Ref("", LocalDir("A") \o <<ManifestName>>)
  /\ st[1].manifestPath = LocalDir("A") \o <<ManifestName>>
  /\ st[1].sourceDir = LocalDir("A")
  /\ IsFile(fs, DestOf(<<"p">>) \o <<"main.go">>)

\* the paths a successful install of manifest m writes in dir
WrittenBy(m, dir, deps) ==
  { dir \o <<ManifestName>>, dir \o <<"go.mod">> }
    \cup DeclaredAt(m, dir)
    \cup (IF deps THEN { dir \o <<"go.sum">> } ELSE {})

\* C12: after a successful reinstall over an existing <pluginsRoot>/<name>,
\* no file and no directory that only the prior install had is left there:
\* every file that is there was written by this install, the manifest and
\* the sources have the new content, and every directory leads to a
\* declared source.
C12_DestructiveOverwrite ==
  \A p \in Procs :
    (Returned(p) /\ st[p].err = Ok /\ TargetKnown(p)
       /\ IsDir(Before(p), DestOf(st[p].manifest.name)))
      => LET m == st[p].manifest
             id == PkgOf(p)
             dir == DestOf(m.name)
             new == WrittenBy(m, dir, Packages[id].deps)
         IN /\ \A x \in FilesIn(Before(p), dir) \ new : ~Exists(fs, x)
            /\ FilesIn(fs, dir) \subseteq new
            /\ fs.files[dir \o <<ManifestName>>] = ManifestDoc(id)
            /\ \A i \in 1..Len(m.sources) :
                 m.sources[i].path \in Packages[id].present \ { <<"go.mod">> } =>
                   fs.files[dir \o m.sources[i].path] = SourceFile(id, m.sources[i].path)
            /\ \A d \in { e \in fs.dirs : Inside(e, dir) } :
                 \E x \in DeclaredAt(m, dir) : Inside(x, d)

\* a remote install of a plugin with one source has returned success over
\* an install that had a second source in a subdirectory and a go.sum
C12_Witness ==
  /\ Returned(1) /\ st[1].err = Ok
  /\ st[1].source = Ref("https://", <<"A">>)
  /\ IsFile(Before(1), DestOf(<<"p">>) \o <<"lib", "util.go">>)
  /\ IsFile(Before(1), DestOf(<<"p">>) \o <<"go.sum">>)
  /\ ~IsDir(fs, DestOf(<<"p">>) \o <<"lib">>)

\* the install menu has returned after InstallPlugin succeeded
InstallHandled ==
  /\ host.cmd = "HandleInstallPlugin"
  /\ host.pc = "none"
  /\ host.installed # NoPath

\* C13: for every reference form, once InstallPlugin has succeeded,
\* HandleInstallPlugin reads the manifest installed at
\* <pluginsRoot>/<manifest.name>/gitspace-plugin.toml and calls LoadPlugin
\* with that manifest's name, also when the last path element of the
\* reference is not the manifest's name.
C13_LoadByManifestName ==
  InstallHandled
    => /\ host.read = DestOf(host.installed) \o <<ManifestName>>
       /\ host.loadArg = host.installed

\* the uninstall menu is serving, or has served, the plugin the operator
\* selected
UninstallHandled ==
  /\ host.cmd = "HandleUninstallPlugin"
  /\ host.selected # ""

Others(f, name) ==
  LET kept(x) == ~Under(x, DestOf(<<name>>)) /\ ~Under(x, <<"tmp">>)
  IN [files |-> [x \in { y \in DOMAIN f.files : kept(y) } |-> f.files[x]],
      dirs  |-> { d \in f.dirs : kept(d) } \ Ancestors(PluginsDir)]

\* uninstallPlugin(name) has run, from the menu or on its own
Uninstalled ==
  /\ host.cmd \in {"HandleUninstallPlugin", "uninstallPlugin"}
  /\ host.selected # ""

\* C15: for a manifest whose name is one non-empty path element and whose
\* source paths stay inside the plugin directory, installPlugin changes, at
\* every step and whatever its result, nothing outside <pluginsRoot>/<name>
\* (its own temporary directory aside), and before the manifest is read
\* nothing below the plugins root; uninstallPlugin(name) changes nothing
\* outside <pluginsRoot>/<name>, leaves no such directory when it succeeds,
\* and for a name that is not installed succeeds and changes nothing.
C15_PerPluginIsolation ==
  /\ \A p \in Procs :
       st[p].pc # "idle" =>
         LET m == st[p].manifest
         IN /\ m = NoManifest =>
                 DirView(fs, PluginsDir) = DirView(Before(p), PluginsDir)
            /\ (m # NoManifest /\ SingleName(m.name) /\ ~DeclaresEscape(m)) =>
                 Others(fs, m.name[1]) = Others(Before(p), m.name[1])
  /\ Uninstalled =>
       LET name == host.selected
           before == obs.fs0[1]
       IN /\ Others(fs, name) = Others(before, name)
          /\ host.removed => ~Exists(fs, DestOf(<<name>>))
          /\ ~Exists(before, DestOf(<<name>>)) =>
               /\ host.removed
               /\ host.err \in {"ok", "unload"}
               /\ fs.files = before.files
               /\ DirView(fs, PluginsDir) = DirView(before, PluginsDir)

\* plugin p has been uninstalled while plugin q, installed before it, is
\* there as it was
C15_Witness ==
  /\ Uninstalled /\ host.selected = "p" /\ host.removed
  /\ IsFile(obs.fs0[1], DestOf(<<"p">>) \o <<ManifestName>>)
  /\ ~Exists(fs, DestOf(<<"p">>))
  /\ DirView(fs, DestOf(<<"q">>)) = InstallView("H")

====
